---- MODULE Spec2Model ----
(***************************************************************************)
(* Model of update-agents.py: the script that reads settings.local.json,   *)
(* scans the agents directory, parses the frontmatter of every *.md file   *)
(* and merges one entry per well-formed document into settings['agents'],  *)
(* then rewrites the settings file and prints a summary.                   *)
(*                                                                         *)
(* Text is modelled as a sequence of tokens.  A token is either one of the *)
(* pieces the regular expressions of the script look at ("---", a line     *)
(* break, a space, "name:", "description:") or a word with no white space  *)
(* in it.  A file name is a sequence of characters.                        *)
(***************************************************************************)
EXTENDS Naturals, Sequences, FiniteSets

\* ------------------------------------------------------------------ text

NL   == "\n"
SP   == " "
DASH == "---"
NAME == "name:"
DESC == "description:"

IsSpace(t) == t \in {SP, NL}

Min(S) == CHOOSE x \in S : \A y \in S : x <= y
Max(S) == CHOOSE x \in S : \A y \in S : x >= y

RECURSIVE LStrip(_)
LStrip(s) == IF s # <<>> /\ IsSpace(Head(s)) THEN LStrip(Tail(s)) ELSE s

RECURSIVE RStrip(_)
RStrip(s) ==
  IF s # <<>> /\ IsSpace(s[Len(s)]) THEN RStrip(SubSeq(s, 1, Len(s) - 1)) ELSE s

\* str.strip()
Strip(s) == RStrip(LStrip(s))

\* re.match(r'^---\n(.*?)\n---\n(.*)', content, re.DOTALL): the content starts
\* with "---\n"; group 1 is the shortest text up to a "\n---\n"; group 2 is the
\* rest.  body is group 2 stripped.
FrontmatterMatch(content) ==
  LET closers == { j \in 3..Len(content) :
                     /\ j + 2 <= Len(content)
                     /\ content[j] = NL
                     /\ content[j + 1] = DASH
                     /\ content[j + 2] = NL }
  IN  IF /\ Len(content) >= 2
         /\ content[1] = DASH
         /\ content[2] = NL
         /\ closers # {}
      THEN LET j == Min(closers)
           IN  [ matched     |-> TRUE,
                 frontmatter |-> SubSeq(content, 3, j - 1),
                 body        |-> Strip(SubSeq(content, j + 3, Len(content))) ]
      ELSE [ matched |-> FALSE, frontmatter |-> <<>>, body |-> <<>> ]

\* The end of the line that position q of s lies on.
RECURSIVE LineEnd(_, _)
LineEnd(s, q) == IF q < Len(s) /\ s[q + 1] # NL THEN LineEnd(s, q + 1) ELSE q

\* The number of white-space tokens of s from position q on.
RECURSIVE SpaceRun(_, _)
SpaceRun(s, q) ==
  IF q <= Len(s) /\ IsSpace(s[q]) THEN 1 + SpaceRun(s, q + 1) ELSE 0

\* The positions where group 1 of r'^<field>\s*(.+)$' may start when the match
\* starts at p: \s* takes k white-space tokens (line breaks included), and .+
\* needs a token that is not a line break.
GroupStarts(fm, p) ==
  { q \in (p + 1)..(p + 1 + SpaceRun(fm, p + 1)) : q <= Len(fm) /\ fm[q] # NL }

\* re.search(r'^<field>\s*(.+)$', frontmatter, re.MULTILINE): the leftmost
\* line start that matches; \s* is greedy, so group 1 starts as far right as
\* a match allows and runs to the end of its line.  value is group 1 stripped.
FieldSearch(fm, field) ==
  LET starts == { p \in 1..Len(fm) :
                    /\ fm[p] = field
                    /\ (p = 1 \/ fm[p - 1] = NL)
                    /\ GroupStarts(fm, p) # {} }
  IN  IF starts = {}
      THEN [ matched |-> FALSE, value |-> <<>> ]
      ELSE LET q == Max(GroupStarts(fm, Min(starts)))
           IN  [ matched |-> TRUE,
                 value   |-> Strip(SubSeq(fm, q, LineEnd(fm, q))) ]

\* The document gives an entry: both matches of lines 24 and 32 succeed.
Parses(content) ==
  LET fmm == FrontmatterMatch(content)
  IN  /\ fmm.matched
      /\ FieldSearch(fmm.frontmatter, NAME).matched
      /\ FieldSearch(fmm.frontmatter, DESC).matched

\* The dictionary literal of lines 40-44.
BuildEntry(content) ==
  LET fmm == FrontmatterMatch(content)
  IN  [ name         |-> FieldSearch(fmm.frontmatter, NAME).value,
        description  |-> FieldSearch(fmm.frontmatter, DESC).value,
        systemPrompt |-> fmm.body ]

\* ------------------------------------------------------------ file names

Ext == <<".", "m", "d">>

\* filename.endswith('.md')
EndsWithMd(fn) ==
  Len(fn) >= Len(Ext) /\ SubSeq(fn, Len(fn) - Len(Ext) + 1, Len(fn)) = Ext

\* filename.replace('.md', ''): every occurrence, found left to right, goes.
RECURSIVE ReplaceMd(_)
ReplaceMd(fn) ==
  IF fn = <<>> THEN <<>>
  ELSE IF Len(fn) >= Len(Ext) /\ SubSeq(fn, 1, Len(Ext)) = Ext
       THEN ReplaceMd(SubSeq(fn, Len(Ext) + 1, Len(fn)))
       ELSE <<Head(fn)>> \o ReplaceMd(Tail(fn))

AgentId(fn) == ReplaceMd(fn)

\* ------------------------------------------------------------------ JSON

\* A JSON value: a string, an array (only the empty one is used) or an object.
\* An object's payload is a function from its keys.
JNull        == [ t |-> "null",   v |-> <<>> ]
JArray       == [ t |-> "array",  v |-> <<>> ]
JString(s)   == [ t |-> "string", v |-> s ]
JObject(f)   == [ t |-> "object", v |-> f ]

EmptyMap == [ k \in {} |-> JNull ]

\* d[k] = v on a dict
Put(f, k, v) == [ x \in DOMAIN f \cup {k} |-> IF x = k THEN v ELSE f[x] ]

IsObject(j) == j.t = "object"

\* 'agents' in settings, for a dict
HasAgents(j) == "agents" \in DOMAIN j.v

\* Lines 37-44 raise no TypeError: settings is a dict, and settings['agents'],
\* when present, takes an item assignment with a string key.
CanMerge(j) == IsObject(j) /\ (HasAgents(j) => IsObject(j.v["agents"]))

\* Lines 37-44 building a new store that holds nothing but `agents`.
MergedStoreFresh(j, id, entry) ==
  LET agents == IF HasAgents(j) THEN j.v["agents"].v ELSE EmptyMap
  IN  JObject(Put(EmptyMap, "agents", JObject(Put(agents, id, entry))))

\* Lines 37-44 on a store that takes them.
MergedStore(j, id, entry) ==
  LET agents == IF HasAgents(j) THEN j.v["agents"].v ELSE EmptyMap
  IN  JObject(Put(j.v, "agents", JObject(Put(agents, id, entry))))

\* len(settings.get('agents', {})) on a dict
AgentCount(j) ==
  IF ~HasAgents(j) THEN 0
  ELSE IF IsObject(j.v["agents"]) THEN Cardinality(DOMAIN j.v["agents"].v)
  ELSE Len(j.v["agents"].v)

\* ------------------------------------------------------------ the inputs

MaxFiles == 2

FnA     == <<"a", ".", "m", "d">>
FnAMd   == <<"a", ".", "m", "d", ".", "m", "d">>
FnB     == <<"b", ".", "m", "d">>
FnNotes == <<"n", ".", "t", "x", "t">>
FileNames == {FnA, FnAMd, FnB, FnNotes}

IdA == <<"a">>
IdZ == <<"z">>

DocFooBar ==
  <<DASH, NL, NAME, SP, "Foo", NL, DESC, SP, "Bar", NL, DASH, NL,
    "Hello", SP, "world">>
DocFooBaz ==
  <<DASH, NL, NAME, SP, "Foo", SP, NL, "color:", SP, "red", NL,
    DESC, SP, "Baz", NL, DASH, NL, NL, "Hello", NL>>
DocNoClose ==
  <<DASH, NL, NAME, SP, "Foo", NL, DESC, SP, "Bar", NL, "Hello">>
DocNoName ==
  <<DASH, NL, DESC, SP, "Bar", NL, DASH, NL, "Hello">>
DocNoDesc ==
  <<DASH, NL, NAME, SP, "Foo", NL, DASH, NL, "Hello">>
DocEmptyName ==
  <<DASH, NL, NAME, NL, DESC, SP, "Bar", NL, DASH, NL, "Hello">>
DocNoFinalNewline ==
  <<DASH, NL, NAME, SP, "Foo", NL, DESC, SP, "Bar", NL, DASH>>
Docs ==
  {DocFooBar, DocFooBaz, DocNoClose, DocNoName, DocNoDesc, DocEmptyName,
   DocNoFinalNewline}

\* A directory entry: a regular file with its text, or something open() of
\* line 19 fails on (a directory named x.md, a file without read permission).
RegularFile(c) == [ kind |-> "file", content |-> c ]
Unreadable     == [ kind |-> "unreadable", content |-> <<>> ]
DirEntries     == { RegularFile(c) : c \in Docs } \cup {Unreadable}
FewEntries     ==
  { RegularFile(DocFooBar), RegularFile(DocFooBaz), RegularFile(DocNoClose),
    Unreadable }

\* What a name may hold: a.md any entry, another *.md name one of a few, and
\* a name that is no *.md name a file the script never opens.
EntriesFor(fn) ==
  IF fn = FnA THEN DirEntries
  ELSE IF EndsWithMd(fn) THEN FewEntries
  ELSE { RegularFile(DocFooBar) }

\* The directories of at most MaxFiles names.
Directories ==
  { d \in UNION { [S -> DirEntries] :
                    S \in { T \in SUBSET FileNames : Cardinality(T) <= MaxFiles } } :
      \A fn \in DOMAIN d : d[fn] \in EntriesFor(fn) }

\* An entry an earlier writer left: it has a field the script never writes.
OldEntry ==
  [ name |-> <<"Old">>, description |-> <<"Old">>, systemPrompt |-> <<"Old">>,
    color |-> <<"red">> ]

OtherKeys ==
  { EmptyMap, [ k \in {"permissions"} |-> JString("allow") ] }

AgentsBefore ==
  { JArray,
    JObject(EmptyMap),
    JObject([ k \in {IdA} |-> OldEntry ]),
    JObject([ k \in {IdZ} |-> OldEntry ]),
    JObject([ k \in {IdA, IdZ} |-> OldEntry ]) }

\* The settings file: absent, not JSON, cut short by a failed write, or JSON.
FileMissing  == [ kind |-> "missing", json |-> JNull ]
FileInvalid  == [ kind |-> "invalid", json |-> JNull ]
FilePartial  == [ kind |-> "partial", json |-> JNull ]
FileJson(j)  == [ kind |-> "json",    json |-> j ]

SettingsFiles ==
  {FileMissing, FileInvalid, FileJson(JArray)}
    \cup { FileJson(JObject(o)) : o \in OtherKeys }
    \cup { FileJson(JObject(Put(o, "agents", a))) : o \in OtherKeys, a \in AgentsBefore }

RECURSIVE Perms(_)
Perms(S) ==
  IF S = {} THEN { <<>> }
  ELSE UNION { { <<x>> \o s : s \in Perms(S \ {x}) } : x \in S }

\* ------------------------------------------------------------- the state

Procs == {"run1", "run2"}

VARIABLES
  file,        \* the settings file on disk
  dir,         \* the agents directory: file name -> entry
  pc,          \* where each invocation of the script is
  settings,    \* each invocation's `settings`
  todo,        \* what is left of each invocation's os.listdir() result
  out,         \* each invocation's standard output, line by line
  err,         \* the step at which an invocation raised, or "none"
  fileAtStart, \* history: the settings file as line 10 found it
  nReads,      \* history: how often line 10 ran
  nWrites,     \* history: how often open(settings_file, 'w') succeeded
  lastWriter,  \* history: who wrote the settings file last
  otherWrote   \* history: another program has written the settings file

vars == <<file, dir, pc, settings, todo, out, err, fileAtStart, nReads,
          nWrites, lastWriter, otherWrote>>

Finished == {"done", "aborted"}

InitProcs ==
  /\ pc = [p \in Procs |-> "start"]
  /\ settings = [p \in Procs |-> JNull]
  /\ todo = [p \in Procs |-> <<>>]
  /\ out = [p \in Procs |-> <<>>]
  /\ err = [p \in Procs |-> "none"]
  /\ fileAtStart = [p \in Procs |-> FileMissing]
  /\ nReads = [p \in Procs |-> 0]
  /\ nWrites = [p \in Procs |-> 0]
  /\ lastWriter = "none"
  /\ otherWrote = FALSE

Init ==
  /\ file \in SettingsFiles
  /\ dir \in Directories
  /\ InitProcs

Abort(p, where) ==
  /\ pc' = [pc EXCEPT ![p] = "aborted"]
  /\ err' = [err EXCEPT ![p] = where]

\* Lines 10-11, the file is there and is JSON.
LoadSettings(p) ==
  /\ pc[p] = "start"
  /\ file.kind = "json"
  /\ settings' = [settings EXCEPT ![p] = file.json]
  /\ fileAtStart' = [fileAtStart EXCEPT ![p] = file]
  /\ nReads' = [nReads EXCEPT ![p] = @ + 1]
  /\ pc' = [pc EXCEPT ![p] = "list"]
  /\ UNCHANGED <<file, dir, todo, out, err, nWrites, lastWriter, otherWrote>>

\* Lines 10-11 falling back to an empty store when the file cannot be loaded.
LoadSettingsDefaults(p) ==
  /\ pc[p] = "start"
  /\ file.kind # "json"
  /\ settings' = [settings EXCEPT ![p] = JObject(EmptyMap)]
  /\ fileAtStart' = [fileAtStart EXCEPT ![p] = file]
  /\ nReads' = [nReads EXCEPT ![p] = @ + 1]
  /\ pc' = [pc EXCEPT ![p] = "list"]
  /\ UNCHANGED <<file, dir, todo, out, err, nWrites, lastWriter, otherWrote>>

\* Lines 10-11, open() or json.load() raises: the script ends there.
LoadSettingsFails(p) ==
  /\ pc[p] = "start"
  /\ file.kind # "json"
  /\ fileAtStart' = [fileAtStart EXCEPT ![p] = file]
  /\ nReads' = [nReads EXCEPT ![p] = @ + 1]
  /\ Abort(p, "load")
  /\ UNCHANGED <<file, dir, settings, todo, out, nWrites, lastWriter, otherWrote>>

\* Line 14, os.listdir(): the names in an order the file system picks.
ListDocuments(p) ==
  /\ pc[p] = "list"
  /\ \E order \in Perms(DOMAIN dir) : todo' = [todo EXCEPT ![p] = order]
  /\ pc' = [pc EXCEPT ![p] = "loop"]
  /\ UNCHANGED <<file, dir, settings, out, err, fileAtStart, nReads, nWrites,
                 lastWriter, otherWrote>>

AtFile(p) == pc[p] = "loop" /\ todo[p] # <<>>

NextFile(p) == todo' = [todo EXCEPT ![p] = Tail(@)]

\* Line 15 is false.
SkipOtherFile(p) ==
  /\ AtFile(p)
  /\ ~EndsWithMd(Head(todo[p]))
  /\ NextFile(p)
  /\ UNCHANGED <<file, dir, pc, settings, out, err, fileAtStart, nReads,
                 nWrites, lastWriter, otherWrote>>

\* Lines 19-20 raise.
ReadDocumentFails(p) ==
  /\ AtFile(p)
  /\ EndsWithMd(Head(todo[p]))
  /\ dir[Head(todo[p])].kind # "file"
  /\ Abort(p, "read")
  /\ UNCHANGED <<file, dir, settings, todo, out, fileAtStart, nReads, nWrites,
                 lastWriter, otherWrote>>

Readable(p) ==
  /\ AtFile(p)
  /\ EndsWithMd(Head(todo[p]))
  /\ dir[Head(todo[p])].kind = "file"

\* Line 24 or line 32 is false: nothing happens for this file.
SkipDocument(p) ==
  /\ Readable(p)
  /\ ~Parses(dir[Head(todo[p])].content)
  /\ NextFile(p)
  /\ UNCHANGED <<file, dir, pc, settings, out, err, fileAtStart, nReads,
                 nWrites, lastWriter, otherWrote>>

\* Lines 37-45 writing the settings file after every merge.
MergeEntryAndSave(p) ==
  /\ Readable(p)
  /\ Parses(dir[Head(todo[p])].content)
  /\ CanMerge(settings[p])
  /\ LET fn == Head(todo[p])
         merged == MergedStore(settings[p], AgentId(fn),
                               BuildEntry(dir[fn].content))
     IN  /\ settings' = [settings EXCEPT ![p] = merged]
         /\ file' = FileJson(merged)
         /\ out' = [out EXCEPT ![p] =
                      Append(@, [kind |-> "updated", arg |-> AgentId(fn)])]
  /\ nWrites' = [nWrites EXCEPT ![p] = @ + 1]
  /\ lastWriter' = p
  /\ NextFile(p)
  /\ UNCHANGED <<dir, pc, err, fileAtStart, nReads, otherWrote>>

\* Lines 37-45.
MergeEntry(p) ==
  /\ Readable(p)
  /\ Parses(dir[Head(todo[p])].content)
  /\ CanMerge(settings[p])
  /\ LET fn == Head(todo[p])
     IN  /\ settings' = [settings EXCEPT ![p] =
                           MergedStore(@, AgentId(fn), BuildEntry(dir[fn].content))]
         /\ out' = [out EXCEPT ![p] =
                      Append(@, [kind |-> "updated", arg |-> AgentId(fn)])]
  /\ NextFile(p)
  /\ UNCHANGED <<file, dir, pc, err, fileAtStart, nReads, nWrites, lastWriter,
                 otherWrote>>

\* Lines 37-44 raise TypeError: settings is no dict, or settings['agents'] is
\* no dict.  Nothing was assigned.
MergeEntryFails(p) ==
  /\ Readable(p)
  /\ Parses(dir[Head(todo[p])].content)
  /\ ~CanMerge(settings[p])
  /\ Abort(p, "merge")
  /\ UNCHANGED <<file, dir, settings, todo, out, fileAtStart, nReads, nWrites,
                 lastWriter, otherWrote>>

AtWrite(p) == pc[p] = "loop" /\ todo[p] = <<>>

\* Lines 48-49 keeping the keys the file has and the store lacks.
SaveSettingsMerging(p) ==
  /\ AtWrite(p)
  /\ file' = IF file.kind = "json" /\ IsObject(file.json) /\ IsObject(settings[p])
             THEN FileJson(JObject(
                    [ k \in DOMAIN file.json.v \cup DOMAIN settings[p].v |->
                        IF k \in DOMAIN settings[p].v
                        THEN settings[p].v[k] ELSE file.json.v[k] ]))
             ELSE FileJson(settings[p])
  /\ nWrites' = [nWrites EXCEPT ![p] = @ + 1]
  /\ lastWriter' = p
  /\ pc' = [pc EXCEPT ![p] = "summary"]
  /\ UNCHANGED <<dir, settings, todo, out, err, fileAtStart, nReads, otherWrote>>

\* Lines 48-49 succeed.  What json.dump writes of a value json.load gave,
\* with entries of strings added, json.load reads back equal.
SaveSettings(p) ==
  /\ AtWrite(p)
  /\ file' = FileJson(settings[p])
  /\ nWrites' = [nWrites EXCEPT ![p] = @ + 1]
  /\ lastWriter' = p
  /\ pc' = [pc EXCEPT ![p] = "summary"]
  /\ UNCHANGED <<dir, settings, todo, out, err, fileAtStart, nReads, otherWrote>>

\* Line 48 raises (no permission to write): the file is as it was.
SaveSettingsOpenFails(p) ==
  /\ AtWrite(p)
  /\ Abort(p, "write-open")
  /\ UNCHANGED <<file, dir, settings, todo, out, fileAtStart, nReads, nWrites,
                 lastWriter, otherWrote>>

\* Line 48 has truncated the file and line 49 raises (the disk is full): the
\* file holds a part of the document, none of it included.
SaveSettingsDumpFails(p) ==
  /\ AtWrite(p)
  /\ file' = FilePartial
  /\ nWrites' = [nWrites EXCEPT ![p] = @ + 1]
  /\ lastWriter' = p
  /\ Abort(p, "write-dump")
  /\ UNCHANGED <<dir, settings, todo, out, fileAtStart, nReads, otherWrote>>

\* Line 51 counting the documents this run merged.
PrintSummaryOfUpdates(p) ==
  /\ pc[p] = "summary"
  /\ IsObject(settings[p])
  /\ out' = [out EXCEPT ![p] =
               Append(@, [kind |-> "summary", arg |-> Len(out[p])])]
  /\ pc' = [pc EXCEPT ![p] = "done"]
  /\ UNCHANGED <<file, dir, settings, todo, err, fileAtStart, nReads, nWrites,
                 lastWriter, otherWrote>>

\* Line 51.
PrintSummary(p) ==
  /\ pc[p] = "summary"
  /\ IsObject(settings[p])
  /\ out' = [out EXCEPT ![p] =
               Append(@, [kind |-> "summary", arg |-> AgentCount(settings[p])])]
  /\ pc' = [pc EXCEPT ![p] = "done"]
  /\ UNCHANGED <<file, dir, settings, todo, err, fileAtStart, nReads, nWrites,
                 lastWriter, otherWrote>>

\* Line 51 raises AttributeError: settings is no dict and has no get().
PrintSummaryFails(p) ==
  /\ pc[p] = "summary"
  /\ ~IsObject(settings[p])
  /\ Abort(p, "summary")
  /\ UNCHANGED <<file, dir, settings, todo, out, fileAtStart, nReads, nWrites,
                 lastWriter, otherWrote>>

\* What an invocation does once it has loaded the settings.
RunStep(p) ==
  \/ ListDocuments(p)
  \/ SkipOtherFile(p)
  \/ ReadDocumentFails(p)
  \/ SkipDocument(p)
  \/ MergeEntry(p)
  \/ MergeEntryFails(p)
  \/ SaveSettings(p)
  \/ SaveSettingsOpenFails(p)
  \/ SaveSettingsDumpFails(p)
  \/ PrintSummary(p)
  \/ PrintSummaryFails(p)

\* Two runs in succession: the second starts when the first has ended.
InTurn(p) == p = "run1" \/ pc["run1"] \in Finished

StartRun(p) == InTurn(p) /\ LoadSettings(p)

StartRunFails(p) == InTurn(p) /\ LoadSettingsFails(p)

Next ==
  \E p \in Procs :
    \/ StartRun(p)
    \/ StartRunFails(p)
    \/ RunStep(p)

Spec == Init /\ [][Next]_vars

\* ------------------------------------------------ concurrent invocations

\* Another program that keeps its own key in the settings file writes it: it
\* reads the file, sets the key and writes the file back in one step.
OtherWriter ==
  /\ ~otherWrote
  /\ file.kind = "json"
  /\ IsObject(file.json)
  /\ file' = FileJson(JObject(Put(file.json.v, "theme", JString("dark"))))
  /\ otherWrote' = TRUE
  /\ lastWriter' = "other"
  /\ UNCHANGED <<dir, pc, settings, todo, out, err, fileAtStart, nReads, nWrites>>

ConcFiles ==
  { FileJson(JObject(Put(EmptyMap, "permissions", JString("allow")))),
    FileJson(JObject(Put(EmptyMap, "agents", JArray))),
    FileJson(JArray) }

ConcDirectories ==
  { d \in Directories :
      /\ DOMAIN d \subseteq {FnA, FnNotes}
      /\ \A fn \in DOMAIN d :
           d[fn] \in {RegularFile(DocFooBar), RegularFile(DocNoClose), Unreadable} }

InitConc ==
  /\ file \in ConcFiles
  /\ dir \in ConcDirectories
  /\ InitProcs

\* Two invocations with nothing that orders them, and the other program.
NextConc ==
  \/ \E p \in Procs :
       \/ LoadSettings(p)
       \/ LoadSettingsFails(p)
       \/ RunStep(p)
  \/ OtherWriter

SpecConc == InitConc /\ [][NextConc]_vars

\* ------------------------------------------------- what the claims speak of

\* The file name with only its trailing ".md" removed.
Stem(fn) == SubSeq(fn, 1, Len(fn) - Len(Ext))

\* The lines of a text.
RECURSIVE SplitLines(_)
SplitLines(s) ==
  LET breaks == { i \in 1..Len(s) : s[i] = NL }
  IN  IF breaks = {} THEN << s >>
      ELSE << SubSeq(s, 1, Min(breaks) - 1) >>
             \o SplitLines(SubSeq(s, Min(breaks) + 1, Len(s)))

RECURSIVE JoinLines(_)
JoinLines(ls) ==
  IF ls = <<>> THEN <<>>
  ELSE IF Len(ls) = 1 THEN ls[1]
  ELSE ls[1] \o <<NL>> \o JoinLines(Tail(ls))

\* The indexes of the "---" lines after the first line.
ClosingLines(c) == { i \in 2..Len(SplitLines(c)) : SplitLines(c)[i] = <<DASH>> }

\* An opening "---" line and a closing one.
HasDelimiters(c) == SplitLines(c)[1] = <<DASH>> /\ ClosingLines(c) # {}

HeaderLines(c) == SubSeq(SplitLines(c), 2, Min(ClosingLines(c)) - 1)

FieldLines(c, field) ==
  { i \in 1..Len(HeaderLines(c)) :
      HeaderLines(c)[i] # <<>> /\ HeaderLines(c)[i][1] = field }

\* The header has a line of the field.
HasField(c, field) == FieldLines(c, field) # {}

\* The trimmed value of the first line of the field.
FieldValue(c, field) == Strip(Tail(HeaderLines(c)[Min(FieldLines(c, field))]))

\* The trimmed text after the closing line.
BodyText(c) ==
  Strip(JoinLines(SubSeq(SplitLines(c), Min(ClosingLines(c)) + 1,
                         Len(SplitLines(c)))))

\* Opening and closing lines, a name line and a description line.
WellFormed(c) == HasDelimiters(c) /\ HasField(c, NAME) /\ HasField(c, DESC)

\* Well-formed, and the name and the description are not empty.
WellFormedWithValues(c) ==
  /\ WellFormed(c)
  /\ FieldValue(c, NAME) # <<>>
  /\ FieldValue(c, DESC) # <<>>

ExpectedEntry(c) ==
  [ name         |-> FieldValue(c, NAME),
    description  |-> FieldValue(c, DESC),
    systemPrompt |-> BodyText(c) ]

\* The agents mapping of a settings document, empty when there is none.
AgentsOf(j) ==
  IF IsObject(j) /\ HasAgents(j) /\ IsObject(j.v["agents"])
  THEN j.v["agents"].v ELSE EmptyMap

\* The agents value of a settings document is a mapping, or is absent.
AgentsIsMapping(j) == IsObject(j) /\ (HasAgents(j) => IsObject(j.v["agents"]))

\* The entry of an identifier, as a set: empty when there is none.
EntryAt(j, id) == IF id \in DOMAIN AgentsOf(j) THEN { AgentsOf(j)[id] } ELSE {}

\* The identifiers the "Updated agent" lines of an invocation name.
UpdatedIds(p) ==
  { out[p][i].arg : i \in { n \in 1..Len(out[p]) : out[p][n].kind = "updated" } }

\* No run after p's has written the settings file.
NoLaterWrite(p) == p = "run1" => nWrites["run2"] = 0

Completed(p) == pc[p] = "done" /\ NoLaterWrite(p)

OtherTopKeys(j) == DOMAIN j.v \ {"agents"}

\* ------------------------------------------------------------ the claims

\* C1: after a run that completes, the settings file is a JSON object with
\* the same top-level keys other than `agents` as the file the run loaded,
\* each with the value it had.
C1_Preservation ==
  \A p \in Procs :
    (Completed(p) /\ IsObject(fileAtStart[p].json)) =>
      /\ file.kind = "json"
      /\ IsObject(file.json)
      /\ OtherTopKeys(file.json) = OtherTopKeys(fileAtStart[p].json)
      /\ \A k \in OtherTopKeys(file.json) :
           file.json.v[k] = fileAtStart[p].json.v[k]

\* A completed run that merged a document into a file that had another key
\* and no `agents` key.
C1_Witness ==
  /\ Completed("run1")
  /\ UpdatedIds("run1") # {}
  /\ ~HasAgents(fileAtStart["run1"].json)
  /\ "permissions" \in OtherTopKeys(file.json)

\* C2: after a completed run, the entry of every identifier x whose document
\* x.md is absent from the directory, or has no closing `---` line, or no
\* `name` field, or no `description` field, is what it was before the run
\* (and is absent if it was absent).
C2_OnlyWellFormedChange ==
  \A p \in Procs :
    (Completed(p) /\ AgentsIsMapping(fileAtStart[p].json)) =>
      \A id \in DOMAIN AgentsOf(file.json) \cup DOMAIN AgentsOf(fileAtStart[p].json) :
        LET fn == id \o Ext
        IN  (\/ fn \notin DOMAIN dir
             \/ (dir[fn].kind = "file" /\ ~WellFormed(dir[fn].content)))
            => EntryAt(file.json, id) = EntryAt(fileAtStart[p].json, id)

\* C3: after a completed run, every well-formed document x.md of the
\* directory (with a name and a description that are not empty) has the entry
\* agents[x], and it is the record of the document's trimmed name, trimmed
\* description and trimmed body.
C3_EntryOfDocument ==
  \A p \in Procs :
    Completed(p) =>
      \A fn \in DOMAIN dir :
        (EndsWithMd(fn) /\ dir[fn].kind = "file"
           /\ WellFormedWithValues(dir[fn].content))
        => EntryAt(file.json, Stem(fn)) = { ExpectedEntry(dir[fn].content) }

\* C4: when two runs in succession both complete, the agents mapping after the
\* second is the agents mapping after the first (which the second loaded).
C4_Idempotent ==
  (pc["run1"] = "done" /\ pc["run2"] = "done") =>
    AgentsOf(file.json) = AgentsOf(fileAtStart["run2"].json)

\* C5: the count of the summary line of a completed run is the number of keys
\* of the agents mapping in the file the run wrote, which is the number of
\* identifiers that were keys before the run or are named by an "Updated
\* agent" line; it is 0 when the file had no `agents` key and no document is
\* well-formed.
C5_Count ==
  \A p \in Procs :
    (Completed(p) /\ AgentsIsMapping(file.json)) =>
      LET last == out[p][Len(out[p])]
      IN  /\ last.kind = "summary"
          /\ last.arg = Cardinality(DOMAIN AgentsOf(file.json))
          /\ last.arg = Cardinality(DOMAIN AgentsOf(fileAtStart[p].json)
                                      \cup UpdatedIds(p))
          /\ ( /\ ~HasAgents(fileAtStart[p].json)
               /\ \A fn \in DOMAIN dir :
                    ~(EndsWithMd(fn) /\ dir[fn].kind = "file"
                        /\ WellFormed(dir[fn].content)) )
             => last.arg = 0

\* A completed run that overwrote one of two entries and left a stale one:
\* the summary says 2.
C5_Witness ==
  /\ Completed("run1")
  /\ DOMAIN AgentsOf(fileAtStart["run1"].json) = {IdA, IdZ}
  /\ UpdatedIds("run1") = {IdA}
  /\ out["run1"][Len(out["run1"])] = [kind |-> "summary", arg |-> 2]

\* C6: after a run whose write step failed, the settings file is what the
\* run loaded.
C6_NoPartialWrite ==
  \A p \in Procs :
    (pc[p] = "aborted" /\ err[p] \in {"write-open", "write-dump"}
       /\ NoLaterWrite(p))
    => file = fileAtStart[p]

\* C7: a run that found the settings file missing or not JSON has stopped at
\* the load: it has listed nothing, printed nothing, written nothing, and the
\* settings file is as it found it.
C7_LoadFailureAborts ==
  \A p \in Procs :
    (pc[p] # "start" /\ fileAtStart[p].kind # "json") =>
      /\ pc[p] = "aborted"
      /\ err[p] = "load"
      /\ todo[p] = <<>>
      /\ out[p] = <<>>
      /\ nWrites[p] = 0
      /\ settings[p] = JNull
      /\ NoLaterWrite(p) => file = fileAtStart[p]

\* A run over a directory with a document in it that found no settings file.
C7_Witness ==
  /\ pc["run1"] = "aborted"
  /\ fileAtStart["run1"] = FileMissing
  /\ FnA \in DOMAIN dir
  /\ dir[FnA] = RegularFile(DocFooBar)
  /\ file = FileMissing

\* C8: a run reads the settings file once, before it lists the directory;
\* it writes the file at most once, and only with no listed name left; and
\* after a run that stopped while reading or merging a document the file is
\* what the run loaded.
C8_ReadOnceWriteLast ==
  \A p \in Procs :
    /\ nReads[p] = (IF pc[p] = "start" THEN 0 ELSE 1)
    /\ nWrites[p] <= 1
    /\ nWrites[p] = 1 => (todo[p] = <<>> /\ pc[p] \in {"summary", "done", "aborted"})
    /\ pc[p] \in {"start", "list", "loop"} => nWrites[p] = 0
    /\ (pc[p] = "aborted" /\ err[p] \in {"read", "merge"}) =>
         /\ nWrites[p] = 0
         /\ NoLaterWrite(p) => file = fileAtStart[p]

\* A run that merged and reported a document, then stopped at one it could
\* not read: its store differs from the file, and the file is untouched.
C8_Witness ==
  /\ pc["run1"] = "aborted"
  /\ err["run1"] = "read"
  /\ UpdatedIds("run1") # {}
  /\ settings["run1"] # fileAtStart["run1"].json
  /\ nWrites["run2"] = 0
  /\ file = fileAtStart["run1"]

\* C9: the identifiers a completed run merged are the file names, less their
\* trailing ".md", of the documents that parse, one "Updated agent" line and
\* one key for each.
C9_IdentifierIsStem ==
  \A p \in Procs :
    pc[p] = "done" =>
      LET merged == { fn \in DOMAIN dir :
                        /\ EndsWithMd(fn)
                        /\ dir[fn].kind = "file"
                        /\ Parses(dir[fn].content) }
      IN  /\ UpdatedIds(p) = { Stem(fn) : fn \in merged }
          /\ Cardinality(UpdatedIds(p)) = Cardinality(merged)

\* C10: when the other program wrote its key after an invocation loaded the
\* settings file, and that invocation was the last to write the file, the key
\* is not in the file: the update is lost.
C10_LostUpdate ==
  \A p \in Procs :
    ( /\ otherWrote
      /\ lastWriter = p
      /\ fileAtStart[p].kind = "json"
      /\ IsObject(fileAtStart[p].json)
      /\ "theme" \notin DOMAIN fileAtStart[p].json.v )
    => (file.kind = "json" => "theme" \notin DOMAIN file.json.v)

\* An invocation loaded the file, the other program wrote its key, and the
\* invocation completed and wrote last: the file is JSON without the key.
C10_Witness ==
  /\ otherWrote
  /\ lastWriter = "run1"
  /\ pc["run1"] = "done"
  /\ file.kind = "json"
  /\ IsObject(file.json)
  /\ "theme" \notin DOMAIN file.json.v
  /\ "permissions" \in DOMAIN file.json.v

====
